---- MODULE Spec2Model ----
(***************************************************************************)
(* The study page of Ameena-AI (src/pages/StudyPage.tsx): the generation   *)
(* handlers of StudyPage, the chat handler, and the Content Store they     *)
(* write through updateStudyMaterial / read through getStudyMaterialById.  *)
(*                                                                         *)
(* Every async handler is split at its `await`s: the synchronous prefix is *)
(* one action (it creates an in-flight invocation holding what the closure *)
(* captured), and each continuation (the rest of the try block, or catch,  *)
(* always followed by finally) is one action.  The handlers are callable   *)
(* whenever the component is mounted; their guards are the conditions of   *)
(* the code itself.                                                        *)
(***************************************************************************)
EXTENDS Integers, Sequences, FiniteSets, TLC

\* ------------------------------------------------------------------ bounds
MaxCalls == 2     \* handler invocations (event handlers included) in one behaviour
MaxClock == 3     \* largest reading of Date.now() (milliseconds)
NumSlides == 2    \* slides of a generated presentation
NumScenes == 3    \* scenes of the video handed to the VideoPlayer
MaxPresses == 3   \* clicks on the VideoPlayer's controls in one behaviour

\* ------------------------------------------------------- JavaScript values
Undefined == "<undefined>"
Null == "<null>"

\* !x for a string-, null- or undefined-valued x
Falsy(x) == x \in {Undefined, Null, ""}
Truthy(x) == ~Falsy(x)

\* x || d
OrElse(x, d) == IF Truthy(x) THEN x ELSE d

\* String.prototype.trim on a text given as a sequence of characters
RECURSIVE TrimStart(_)
TrimStart(s) == IF s # <<>> /\ Head(s) = " " THEN TrimStart(Tail(s)) ELSE s

RECURSIVE TrimEnd(_)
TrimEnd(s) ==
  IF s # <<>> /\ s[Len(s)] = " " THEN TrimEnd(SubSeq(s, 1, Len(s) - 1)) ELSE s

Trim(s) == TrimEnd(TrimStart(s))

\* ------------------------------------------------------------------- types
NoteLength == {"SHORT", "MEDIUM", "DETAILED"}

GenerateTypes == {"summary", "explanation", "notes"}

\* a notes mapping with no key; `material.notes` undefined spreads the same way
NoNotes == [l \in NoteLength |-> Undefined]

\* an absent presentationContent / videoScenes
NoPresentation == [defined |-> FALSE, title |-> "", slides |-> <<>>]
NoScenes == [defined |-> FALSE, scenes |-> <<>>]

\* A text is a sequence of characters (or longer chunks of a fixed wording).
\* the id of a ChatMessage, `${prefix}_${t}`
MsgId(prefix, t) == [prefix |-> prefix, t |-> t]

ChatMessage(id, sender, text, timestamp, groundingSources) ==
  [id |-> id, sender |-> sender, text |-> text, timestamp |-> timestamp,
   groundingSources |-> groundingSources]

\* ------------------------------------------------------------ Content Store
MaterialIds == {"m1", "m2"}

NoId == "<undefined>"

\* what useParams can hand to the page: a stored id, an unknown id, or nothing
ContentIds == MaterialIds \cup {"m9", NoId}

\* the id segment of a study URL: a stored id or an unknown one
UrlIds == MaterialIds \cup {"m9"}

\* the parameter of the application's study route, path="/study/:id"
StudyRouteParam == "id"

\* the parameter the page asks for: useParams<{ contentId: string }>()
PageParam == "contentId"

\* the names the parameter of a route that renders the page can have: the
\* application's, or the one the page asks for
RouteParams == {StudyRouteParam, PageParam}

\* useParams()[name] under a route whose parameter `param` matched `id`
UseParams(param, id, name) == IF name = param THEN id ELSE NoId

\* a record just uploaded: no generated field yet
FreshMaterial(id) ==
  [id |-> id, title |-> "title", extractedText |-> "text",
   aiSummary |-> Undefined, aiExplanation |-> Undefined, notes |-> NoNotes,
   presentationContent |-> NoPresentation, blockDiagramMermaid |-> Undefined,
   videoScenes |-> NoScenes, chatHistory |-> <<>>]

\* a record studied in an earlier session: explanation, SHORT notes, a
\* presentation with images and one chat exchange [A, B] are stored
StudiedMaterial(id) ==
  [FreshMaterial(id) EXCEPT
     !.aiExplanation = "e1",
     !.notes = [NoNotes EXCEPT !["SHORT"] = "n1"],
     !.presentationContent =
        [defined |-> TRUE, title |-> "deck",
         slides |-> [i \in 1..NumSlides |-> [title |-> "s", imageUrl |-> "img"]]],
     !.chatHistory =
        << ChatMessage(MsgId("msg", 0), "user", <<"a">>, 0, <<>>),
           ChatMessage(MsgId("msg", 1), "ai", <<"r1">>, 0, <<>>) >>]

InitialStore == [id \in MaterialIds |->
                   IF id = "m1" THEN FreshMaterial(id) ELSE StudiedMaterial(id)]

\* getStudyMaterialById(id) on store st: <<record>> when found, <<>> otherwise
GetStudyMaterialById(st, id) == IF id \in DOMAIN st THEN <<st[id]>> ELSE <<>>

\* { ...m, ...updates }
MergeFields(m, updates) ==
  [f \in DOMAIN m |-> IF f \in DOMAIN updates THEN updates[f] ELSE m[f]]

\* updateStudyMaterial(id, updates): a field-scoped merge into the record `id`
UpdateStudyMaterial(st, id, updates) ==
  IF id \in DOMAIN st THEN [st EXCEPT ![id] = MergeFields(@, updates)] ELSE st

\* ------------------------------------------------------------------- state
VARIABLES
  store,                   \* the Content Store: id -> StudyMaterial
  routeParam,              \* the parameter name of the route that renders the page
  urlId,                   \* the id segment of the URL the route matched
  contentId,               \* useParams().contentId
  location,                \* "study", or "/" after navigate('/')
  material,                \* useState<StudyMaterial | null>: <<>> or <<record>>
  isLoading,               \* useState<Record<string, boolean>>
  error,                   \* useState<Record<string, string | null>>
  chatInput,
  isAwaitingChatResponse,
  selectedNoteLength,
  videoGenerationProgress,
  isGeneratingPresentation,
  presentationGenProgress,
  presentationError,
  isGeneratingDiagram,
  diagramError,
  now,                     \* the latest reading of Date.now()
  calls,                   \* handler invocations so far (event handlers included)
  gatewayCalls,            \* geminiService calls issued so far
  genTasks,                \* in-flight handleGenerate invocations
  chatTasks,               \* in-flight handleSendMessage invocations
  presTasks,               \* in-flight handleGenerateFullPresentation invocations
  diagTasks,               \* in-flight handleGenerateBlockDiagram invocations
  videoTasks               \* in-flight handleGenerateVideo invocations

\* the VideoPlayer component and the browser's speechSynthesis
VARIABLES
  playerMounted,           \* the VideoPlayer is mounted
  currentSceneIndex,       \* useState(0)
  isPlaying,               \* useState(false)
  utteranceRef,            \* utteranceRef.current: <<>> (null) or <<utterance>>
  synth,                   \* window.speechSynthesis: its queue (the head is being
                           \* spoken), the last method called on it, and whether
                           \* some speak() did not directly follow a cancel()
  endEvents,               \* `end` events of interrupted utterances, not yet dispatched
  timers,                  \* pending setTimeout(..., 0) callbacks: the `next` of each
  presses                  \* clicks on the player's controls so far

playerVars == <<playerMounted, currentSceneIndex, isPlaying, utteranceRef, synth,
                endEvents, timers, presses>>

pageVars == <<routeParam, urlId, contentId, location, material>>
flagVars == <<isLoading, error, isAwaitingChatResponse, videoGenerationProgress,
              isGeneratingPresentation, presentationGenProgress,
              presentationError, isGeneratingDiagram, diagramError>>
inputVars == <<chatInput, selectedNoteLength>>
taskVars == <<genTasks, chatTasks, presTasks, diagTasks, videoTasks>>
studyVars == <<store, pageVars, flagVars, inputVars, now, calls, gatewayCalls, taskVars>>
vars == <<studyVars, playerVars>>

LoadingKeys == {"summary", "explanation", "notes", "video"}
ErrorKeys == {"summary", "explanation", "notes", "video", "chat"}

\* what the user can have typed into the chat box
ChatInputs == { <<>>, <<" ">>, <<" ", "b">> }

Init ==
  /\ store = InitialStore
  /\ routeParam \in RouteParams
  /\ urlId \in UrlIds
  /\ contentId = UseParams(routeParam, urlId, PageParam)
  /\ location = "study"
  /\ material = <<>>
  /\ isLoading = [k \in LoadingKeys |-> FALSE]
  /\ error = [k \in ErrorKeys |-> Undefined]
  /\ chatInput = <<>>
  /\ isAwaitingChatResponse = FALSE
  /\ selectedNoteLength = "MEDIUM"
  /\ videoGenerationProgress = ""
  /\ isGeneratingPresentation = FALSE
  /\ presentationGenProgress = ""
  /\ presentationError = Null
  /\ isGeneratingDiagram = FALSE
  /\ diagramError = Null
  /\ now = 2
  /\ calls = 0
  /\ gatewayCalls = 0
  /\ genTasks = {}
  /\ chatTasks = {}
  /\ presTasks = {}
  /\ diagTasks = {}
  /\ videoTasks = {}
  /\ playerMounted = TRUE
  /\ currentSceneIndex = 0
  /\ isPlaying = FALSE
  /\ utteranceRef = <<>>
  /\ synth = [queue |-> <<>>, last |-> "none", uncancelled |-> FALSE]
  /\ endEvents = <<>>
  /\ timers = <<>>
  /\ presses = 0

\* material?.id
MaterialId == IF material = <<>> THEN Undefined ELSE material[1].id

\* material?.aiExplanation
MaterialExplanation == IF material = <<>> THEN Undefined ELSE material[1].aiExplanation

\* The load effect's body: the page state after it ran against store st.
Loaded(st) ==
  IF contentId = NoId THEN material
  ELSE IF GetStudyMaterialById(st, contentId) # <<>>
       THEN GetStudyMaterialById(st, contentId)
       ELSE material

\* The effect at mount: look the record up, or leave for '/'.
LoadEffect ==
  /\ location = "study"
  /\ material = <<>>
  /\ IF contentId = NoId \/ GetStudyMaterialById(store, contentId) = <<>>
     THEN /\ location' = "/"
          /\ UNCHANGED material
     ELSE /\ material' = Loaded(store)
          /\ UNCHANGED location
  /\ UNCHANGED <<store, routeParam, urlId, contentId, playerVars, flagVars,
                 inputVars, now, calls, gatewayCalls, taskVars>>

\* A store update followed by the re-render it causes: the load effect runs
\* again and the page's `material` becomes the record as now stored.
WriteStore(id, updates) ==
  /\ store' = UpdateStudyMaterial(store, id, updates)
  /\ material' = IF material = <<>> THEN material
                 ELSE Loaded(UpdateStudyMaterial(store, id, updates))
  /\ UNCHANGED <<routeParam, urlId, contentId, location, playerVars>>

Mounted == location = "study"

\* onClick of a note-length button
SetSelectedNoteLength ==
  /\ Mounted /\ material # <<>> /\ calls < MaxCalls
  /\ calls' = calls + 1
  /\ \E l \in NoteLength \ {selectedNoteLength} : selectedNoteLength' = l
  /\ UNCHANGED <<store, pageVars, playerVars, flagVars, chatInput, now, gatewayCalls, taskVars>>

\* setChatInput(e.target.value)
TypeChatInput(s) ==
  /\ Mounted /\ material # <<>>
  /\ s # chatInput
  /\ chatInput' = s
  /\ UNCHANGED <<store, pageVars, playerVars, flagVars, selectedNoteLength, now, gatewayCalls, taskVars>>

\* onChange of the chat textarea
SetChatInput ==
  /\ calls < MaxCalls
  /\ calls' = calls + 1
  /\ \E s \in ChatInputs : TypeChatInput(s)

\* Date.now() read again: the clock never runs backwards
ClockReadings == now..MaxClock

\* --------------------------------------------------------- handleGenerate
\* what generatorFn() can resolve to
GeneratedTexts == {"", "g1"}

\* `Failed to generate ${type}. Please try again.`
FailedToGenerate(type) ==
  CASE type = "summary" -> "Failed to generate summary. Please try again."
    [] type = "explanation" -> "Failed to generate explanation. Please try again."
    [] type = "notes" -> "Failed to generate notes. Please try again."

\* a mutation of UpdateKey: a summary is written to the explanation's field
UpdateKeySummaryAsExplanation(type) ==
  IF type = "notes" THEN "notes" ELSE "aiExplanation"

\* type === 'summary' ? 'aiSummary' : type === 'explanation' ? 'aiExplanation' : 'notes'
UpdateKey(type) ==
  IF type = "summary" THEN "aiSummary"
  ELSE IF type = "explanation" THEN "aiExplanation" ELSE "notes"

\* a mutation of UpdateValue: the notes mapping is rebuilt from the new key alone
UpdateValueNoSpread(type, notes, len, result) ==
  IF type = "notes" THEN [NoNotes EXCEPT ![len] = result] ELSE result

UpdateValue(type, notes, len, result) ==
  IF type = "notes" THEN [notes EXCEPT ![len] = result] ELSE result

\* a mutation of GenerateUpdates: an explanation result also resets the notes
GenerateUpdatesClobber(type, notes, len, result) ==
  IF type = "explanation"
  THEN [aiExplanation |-> result, notes |-> NoNotes]
  ELSE UpdateKey(type) :> UpdateValue(type, notes, len, result)

\* { [updateKey]: updateValue }
GenerateUpdates(type, notes, len, result) ==
  UpdateKey(type) :> UpdateValue(type, notes, len, result)

\* handleGenerate(type, generatorFn) up to `await generatorFn()`
HandleGenerate(type) ==
  /\ Mounted /\ calls < MaxCalls
  /\ calls' = calls + 1
  /\ IF Falsy(MaterialId)
     THEN UNCHANGED <<isLoading, error, genTasks, gatewayCalls>>
     ELSE /\ isLoading' = [isLoading EXCEPT ![type] = TRUE]
          /\ error' = [error EXCEPT ![type] = Null]
          /\ gatewayCalls' = gatewayCalls + 1
          /\ genTasks' = genTasks \cup
               {[n |-> calls + 1, type |-> type, id |-> material[1].id,
                 notes |-> material[1].notes, len |-> selectedNoteLength,
                 storedNotes |-> store[material[1].id].notes]}
  /\ UNCHANGED <<store, pageVars, playerVars, isAwaitingChatResponse, videoGenerationProgress,
                 isGeneratingPresentation, presentationGenProgress, presentationError,
                 isGeneratingDiagram, diagramError, inputVars, now,
                 chatTasks, presTasks, diagTasks, videoTasks>>

\* a mutation of GenerateResolved: a fencing rule, the result is dropped when
\* a later invocation of the same type is in flight
GenerateResolvedFenced(t, result) ==
  /\ t \in genTasks
  /\ genTasks' = genTasks \ {t}
  /\ IF \E h \in genTasks : h.type = t.type /\ h.id = t.id /\ h.n > t.n
     THEN UNCHANGED <<store, pageVars, playerVars>>
     ELSE WriteStore(t.id, GenerateUpdates(t.type, t.notes, t.len, result))
  /\ isLoading' = [isLoading EXCEPT ![t.type] = FALSE]
  /\ UNCHANGED <<error, isAwaitingChatResponse, videoGenerationProgress,
                 isGeneratingPresentation, presentationGenProgress, presentationError,
                 isGeneratingDiagram, diagramError, inputVars, now, calls, gatewayCalls,
                 chatTasks, presTasks, diagTasks, videoTasks>>

\* generatorFn() resolved with `result`: the rest of the try block, then finally
GenerateResolved(t, result) ==
  /\ t \in genTasks
  /\ genTasks' = genTasks \ {t}
  /\ WriteStore(t.id, GenerateUpdates(t.type, t.notes, t.len, result))
  /\ isLoading' = [isLoading EXCEPT ![t.type] = FALSE]
  /\ UNCHANGED <<error, isAwaitingChatResponse, videoGenerationProgress,
                 isGeneratingPresentation, presentationGenProgress, presentationError,
                 isGeneratingDiagram, diagramError, inputVars, now, calls, gatewayCalls,
                 chatTasks, presTasks, diagTasks, videoTasks>>

\* generatorFn() rejected, or updateStudyMaterial threw in the try block:
\* catch, then finally
GenerateRejected(t) ==
  /\ t \in genTasks
  /\ genTasks' = genTasks \ {t}
  /\ error' = [error EXCEPT ![t.type] = FailedToGenerate(t.type)]
  /\ isLoading' = [isLoading EXCEPT ![t.type] = FALSE]
  /\ UNCHANGED <<store, pageVars, playerVars, isAwaitingChatResponse, videoGenerationProgress,
                 isGeneratingPresentation, presentationGenProgress, presentationError,
                 isGeneratingDiagram, diagramError, inputVars, now, calls, gatewayCalls,
                 chatTasks, presTasks, diagTasks, videoTasks>>

Generate ==
  \/ \E type \in GenerateTypes : HandleGenerate(type)
  \/ \E t \in genTasks : \E result \in GeneratedTexts : GenerateResolved(t, result)
  \/ \E t \in genTasks : GenerateRejected(t)

\* ------------------------------------------------------ handleSendMessage
NoOverride == <<"<undefined>">>

\* the textOverride argument: none (the page's callers), or a text
TextOverrides == {NoOverride, <<" ", "c">>}

\* what sendMessageToChat can resolve to: a text and grounding sources
AiTexts == { <<"r2">> }
GroundingSources == { <<>>, <<"uri1">> }

ApologyText ==
  <<"Sorry, I encountered an error. Please check your connection or API key and try again.">>

\* (textOverride ?? chatInput).trim()
TextToSend(textOverride) ==
  Trim(IF textOverride = NoOverride THEN chatInput ELSE textOverride)

UserMessage(text, t) == ChatMessage(MsgId("msg", t), "user", text, t, <<>>)

AiMessage(aiText, groundingSources, t) ==
  ChatMessage(MsgId("msg", t + 1), "ai", aiText, t, groundingSources)

ErrorMessage(t) == ChatMessage(MsgId("err", t), "ai", ApologyText, t, <<>>)

\* a mutation of HistoryOnReply: the reply is appended without the user message
HistoryOnReplyNoUser(captured, userMessage, aiMessage) ==
  captured \o <<aiMessage>>

\* [...(material.chatHistory || []), userMessage, aiMessage], on the captured material
HistoryOnReply(captured, userMessage, aiMessage) ==
  captured \o <<userMessage, aiMessage>>

\* a mutation of HistoryOnError: the captured history is the base
HistoryOnErrorCaptured(st, id, captured, errorMessage) ==
  captured \o <<errorMessage>>

\* [...(currentMaterial?.chatHistory || []), errorMessage], on the store as read now
HistoryOnError(st, id, captured, errorMessage) ==
  (IF GetStudyMaterialById(st, id) = <<>> THEN <<>>
   ELSE GetStudyMaterialById(st, id)[1].chatHistory) \o <<errorMessage>>

\* handleSendMessage(textOverride) up to `await sendMessageToChat(...)`
HandleSendMessage(textOverride, t) ==
  /\ Mounted /\ calls < MaxCalls
  /\ calls' = calls + 1
  /\ IF TextToSend(textOverride) = <<>> \/ Falsy(MaterialId)
     THEN UNCHANGED <<store, pageVars, playerVars, chatInput, isAwaitingChatResponse, error,
                      now, gatewayCalls, chatTasks>>
     ELSE /\ now' = t
          /\ WriteStore(material[1].id,
                        [chatHistory |-> material[1].chatHistory
                                           \o <<UserMessage(TextToSend(textOverride), t)>>])
          /\ chatInput' = <<>>
          /\ isAwaitingChatResponse' = TRUE
          /\ error' = [error EXCEPT !["chat"] = Null]
          /\ gatewayCalls' = gatewayCalls + 2
          /\ chatTasks' = chatTasks \cup
               {[n |-> calls + 1, id |-> material[1].id,
                 history |-> material[1].chatHistory,
                 userMessage |-> UserMessage(TextToSend(textOverride), t),
                 storedHistory |-> store[material[1].id].chatHistory]}
  /\ UNCHANGED <<isLoading, videoGenerationProgress, isGeneratingPresentation,
                 presentationGenProgress, presentationError, isGeneratingDiagram,
                 diagramError, selectedNoteLength, genTasks, presTasks, diagTasks,
                 videoTasks>>

\* sendMessageToChat resolved: the rest of the try block, then finally
ChatResolved(c, aiText, groundingSources, t) ==
  /\ c \in chatTasks
  /\ chatTasks' = chatTasks \ {c}
  /\ now' = t
  /\ WriteStore(c.id, [chatHistory |->
        HistoryOnReply(c.history, c.userMessage, AiMessage(aiText, groundingSources, t))])
  /\ isAwaitingChatResponse' = FALSE
  /\ UNCHANGED <<isLoading, error, videoGenerationProgress, isGeneratingPresentation,
                 presentationGenProgress, presentationError, isGeneratingDiagram,
                 diagramError, inputVars, calls, gatewayCalls, genTasks, presTasks,
                 diagTasks, videoTasks>>

\* startOrGetChat threw or sendMessageToChat rejected: catch, then finally
ChatRejected(c, t) ==
  /\ c \in chatTasks
  /\ chatTasks' = chatTasks \ {c}
  /\ now' = t
  /\ WriteStore(c.id, [chatHistory |-> HistoryOnError(store, c.id, c.history, ErrorMessage(t))])
  /\ isAwaitingChatResponse' = FALSE
  /\ UNCHANGED <<isLoading, error, videoGenerationProgress, isGeneratingPresentation,
                 presentationGenProgress, presentationError, isGeneratingDiagram,
                 diagramError, inputVars, calls, gatewayCalls, genTasks, presTasks,
                 diagTasks, videoTasks>>

\* the store update of the try block and that of the catch block both threw, or
\* the gateway call failed and the store update of the catch block threw: the
\* error leaves the handler after finally has run
ChatStoreThrows(c, t) ==
  /\ c \in chatTasks
  /\ chatTasks' = chatTasks \ {c}
  /\ now' = t
  /\ isAwaitingChatResponse' = FALSE
  /\ UNCHANGED <<store, pageVars, playerVars, isLoading, error, videoGenerationProgress,
                 isGeneratingPresentation, presentationGenProgress, presentationError,
                 isGeneratingDiagram, diagramError, inputVars, calls, gatewayCalls,
                 genTasks, presTasks, diagTasks, videoTasks>>

Chat ==
  \/ \E textOverride \in TextOverrides : \E t \in ClockReadings :
        HandleSendMessage(textOverride, t)
  \/ \E c \in chatTasks : \E aiText \in AiTexts : \E g \in GroundingSources :
        \E t \in ClockReadings : ChatResolved(c, aiText, g, t)
  \/ \E c \in chatTasks : \E t \in ClockReadings : ChatRejected(c, t)
  \/ \E c \in chatTasks : \E t \in ClockReadings : ChatStoreThrows(c, t)

\* a mutation of ExplanationMissing: only an explanation never generated counts
ExplanationNeverGenerated == MaterialExplanation = Undefined

\* !material?.aiExplanation, the precondition of diagram and video generation
ExplanationMissing == Falsy(MaterialExplanation)

\* ------------------------------------------ handleGenerateFullPresentation
ExplanationFirst == "An explanation must be generated first to create a presentation."
SomeVisualsMissing == "Some slide visuals could not be generated."
NoContentMessage == "The AI failed to generate presentation content."
NoImagesMessage == "Failed to generate presentation images."
UnknownError == "An unknown error occurred."

\* err.message of a rejected gateway call
ErrMessages == {"", "quota exceeded"}

\* what generatePresentationContent can resolve to: slides without images, or nothing
GeneratedContent ==
  [defined |-> TRUE, title |-> "deck2",
   slides |-> [i \in 1..NumSlides |-> [title |-> "s", imageUrl |-> Undefined]]]

ContentResults == {NoPresentation, GeneratedContent}

\* `content` with an image URL on the slides in `done` and none on the others
WithImages(content, done) ==
  [content EXCEPT !.slides =
     [i \in DOMAIN content.slides |->
        [content.slides[i] EXCEPT !.imageUrl = IF i \in done THEN "img2" ELSE Undefined]]]

\* what generatePresentationImages(content) can resolve to: nothing, or the
\* content with images on any subset of its slides
ImageResults(content) ==
  {NoPresentation} \cup {WithImages(content, done) : done \in SUBSET DOMAIN content.slides}

\* slides.some(s => !s.imageUrl)
SomeSlideWithoutImage(content) ==
  \E i \in DOMAIN content.slides : Falsy(content.slides[i].imageUrl)

\* no slide has an image
NoSlideWithImage(content) ==
  \A i \in DOMAIN content.slides : Falsy(content.slides[i].imageUrl)

\* presentationError once phase 2 resolved with content
ErrorAfterImages(contentWithImages, before) ==
  IF SomeSlideWithoutImage(contentWithImages) THEN SomeVisualsMissing ELSE before

\* a mutation of PresentationPreconditionFails: only the material is required
PresentationPreconditionIdOnly == Falsy(MaterialId)

\* !material?.id || !material.aiExplanation
PresentationPreconditionFails == Falsy(MaterialId) \/ Falsy(MaterialExplanation)

\* handleGenerateFullPresentation up to `await generatePresentationContent(...)`
HandleGenerateFullPresentation ==
  /\ Mounted /\ calls < MaxCalls
  /\ calls' = calls + 1
  /\ IF PresentationPreconditionFails
     THEN /\ presentationError' = ExplanationFirst
          /\ UNCHANGED <<isGeneratingPresentation, presentationGenProgress,
                         gatewayCalls, presTasks>>
     ELSE /\ isGeneratingPresentation' = TRUE
          /\ presentationError' = Null
          /\ presentationGenProgress' = "Step 1/2: Crafting slide content..."
          /\ gatewayCalls' = gatewayCalls + 1
          /\ presTasks' = presTasks \cup
               {[n |-> calls + 1, id |-> material[1].id, pc |-> "content",
                 content |-> NoPresentation]}
  /\ UNCHANGED <<store, pageVars, playerVars, isLoading, error, isAwaitingChatResponse,
                 videoGenerationProgress, isGeneratingDiagram, diagramError,
                 inputVars, now, genTasks, chatTasks, diagTasks, videoTasks>>

\* a mutation of PresentationCatch: the error is recorded, the stored content kept
PresentationCatchKeep(p, message) ==
  /\ presTasks' = presTasks \ {p}
  /\ presentationError' = OrElse(message, UnknownError)
  /\ UNCHANGED <<store, pageVars, playerVars>>
  /\ isGeneratingPresentation' = FALSE
  /\ presentationGenProgress' = ""

\* the catch block, then finally
PresentationCatch(p, message) ==
  /\ presTasks' = presTasks \ {p}
  /\ presentationError' = OrElse(message, UnknownError)
  /\ WriteStore(p.id, [presentationContent |-> NoPresentation])
  /\ isGeneratingPresentation' = FALSE
  /\ presentationGenProgress' = ""

\* a mutation of PresentationContentResolved: the images are requested without
\* the content having been stored first
PresentationContentResolvedNoWrite(p, content) ==
  /\ p \in presTasks /\ p.pc = "content"
  /\ IF ~content.defined
     THEN /\ PresentationCatch(p, NoContentMessage)
          /\ UNCHANGED gatewayCalls
     ELSE /\ UNCHANGED <<store, pageVars, playerVars>>
          /\ gatewayCalls' = gatewayCalls + 1
          /\ presTasks' = (presTasks \ {p}) \cup
                            {[p EXCEPT !.pc = "images", !.content = content]}
          /\ UNCHANGED <<isGeneratingPresentation, presentationGenProgress,
                         presentationError>>
  /\ UNCHANGED <<isLoading, error, isAwaitingChatResponse, videoGenerationProgress,
                 isGeneratingDiagram, diagramError, inputVars, now, calls,
                 genTasks, chatTasks, diagTasks, videoTasks>>

\* generatePresentationContent resolved with `content`
PresentationContentResolved(p, content) ==
  /\ p \in presTasks /\ p.pc = "content"
  /\ IF ~content.defined
     THEN /\ PresentationCatch(p, NoContentMessage)
          /\ UNCHANGED gatewayCalls
     ELSE /\ WriteStore(p.id, [presentationContent |-> content])
          /\ gatewayCalls' = gatewayCalls + 1
          /\ presTasks' = (presTasks \ {p}) \cup
                            {[p EXCEPT !.pc = "images", !.content = content]}
          /\ UNCHANGED <<isGeneratingPresentation, presentationGenProgress,
                         presentationError>>
  /\ UNCHANGED <<isLoading, error, isAwaitingChatResponse, videoGenerationProgress,
                 isGeneratingDiagram, diagramError, inputVars, now, calls,
                 genTasks, chatTasks, diagTasks, videoTasks>>

\* a mutation of PresentationRejected: a rejection of phase 1 leaves the store
\* alone, only a rejection of phase 2 clears the content that phase 1 stored
PresentationRejectedPhase2Only(p, message) ==
  /\ p \in presTasks
  /\ IF p.pc = "images"
     THEN PresentationCatch(p, message)
     ELSE PresentationCatchKeep(p, message)
  /\ UNCHANGED <<isLoading, error, isAwaitingChatResponse, videoGenerationProgress,
                 isGeneratingDiagram, diagramError, inputVars, now, calls, gatewayCalls,
                 genTasks, chatTasks, diagTasks, videoTasks>>

\* generatePresentationContent or generatePresentationImages rejected
PresentationRejected(p, message) ==
  /\ p \in presTasks
  /\ PresentationCatch(p, message)
  /\ UNCHANGED <<isLoading, error, isAwaitingChatResponse, videoGenerationProgress,
                 isGeneratingDiagram, diagramError, inputVars, now, calls, gatewayCalls,
                 genTasks, chatTasks, diagTasks, videoTasks>>

\* onProgress(progress), called by generatePresentationImages
PresentationProgress(p) ==
  /\ p \in presTasks /\ p.pc = "images"
  /\ presentationGenProgress # "Step 2/2: Generating visuals..."
  /\ presentationGenProgress' = "Step 2/2: Generating visuals..."
  /\ UNCHANGED <<store, pageVars, playerVars, isLoading, error, isAwaitingChatResponse,
                 videoGenerationProgress, isGeneratingPresentation, presentationError,
                 isGeneratingDiagram, diagramError, inputVars, now, calls, gatewayCalls,
                 taskVars>>

\* a mutation of AfterImages: content with missing visuals is stored without a warning
AfterImagesNoWarning(p, contentWithImages) ==
  /\ presTasks' = presTasks \ {p}
  /\ WriteStore(p.id, [presentationContent |-> contentWithImages])
  /\ UNCHANGED presentationError
  /\ isGeneratingPresentation' = FALSE
  /\ presentationGenProgress' = ""

\* `if (contentWithImages) { ... }`, then finally
AfterImages(p, contentWithImages) ==
  /\ presTasks' = presTasks \ {p}
  /\ WriteStore(p.id, [presentationContent |-> contentWithImages])
  /\ presentationError' = ErrorAfterImages(contentWithImages, presentationError)
  /\ isGeneratingPresentation' = FALSE
  /\ presentationGenProgress' = ""

\* generatePresentationImages resolved with `contentWithImages`
PresentationImagesResolved(p, contentWithImages) ==
  /\ p \in presTasks /\ p.pc = "images"
  /\ IF contentWithImages.defined
     THEN AfterImages(p, contentWithImages)
     ELSE PresentationCatch(p, NoImagesMessage)
  /\ UNCHANGED <<isLoading, error, isAwaitingChatResponse, videoGenerationProgress,
                 isGeneratingDiagram, diagramError, inputVars, now, calls, gatewayCalls,
                 genTasks, chatTasks, diagTasks, videoTasks>>

\* an error was caught (from the gateway, or from a store update of the try
\* block) and the store update of the catch block threw: finally still runs
PresentationStoreThrows(p, message) ==
  /\ p \in presTasks
  /\ presTasks' = presTasks \ {p}
  /\ presentationError' = OrElse(message, UnknownError)
  /\ isGeneratingPresentation' = FALSE
  /\ presentationGenProgress' = ""
  /\ UNCHANGED <<store, pageVars, playerVars, isLoading, error, isAwaitingChatResponse,
                 videoGenerationProgress, isGeneratingDiagram, diagramError,
                 inputVars, now, calls, gatewayCalls,
                 genTasks, chatTasks, diagTasks, videoTasks>>

Presentation ==
  \/ HandleGenerateFullPresentation
  \/ \E p \in presTasks : \E content \in ContentResults :
        PresentationContentResolved(p, content)
  \/ \E p \in presTasks : \E message \in ErrMessages : PresentationRejected(p, message)
  \/ \E p \in presTasks : PresentationProgress(p)
  \/ \E p \in presTasks : \E cwi \in ImageResults(p.content) :
        PresentationImagesResolved(p, cwi)
  \/ \E p \in presTasks : \E message \in ErrMessages : PresentationStoreThrows(p, message)

\* ---------------------------------------------- handleGenerateBlockDiagram
ExplanationFirstShort == "Please generate an explanation first."

\* what generateBlockDiagram can resolve to
DiagramResults == {"", Undefined, "graph TD; A-->B"}

HandleGenerateBlockDiagram ==
  /\ Mounted /\ calls < MaxCalls
  /\ calls' = calls + 1
  /\ IF ExplanationMissing
     THEN /\ diagramError' = ExplanationFirstShort
          /\ UNCHANGED <<isGeneratingDiagram, gatewayCalls, diagTasks>>
     ELSE /\ isGeneratingDiagram' = TRUE
          /\ diagramError' = Null
          /\ gatewayCalls' = gatewayCalls + 1
          /\ diagTasks' = diagTasks \cup {[n |-> calls + 1, id |-> material[1].id]}
  /\ UNCHANGED <<store, pageVars, playerVars, isLoading, error, isAwaitingChatResponse,
                 videoGenerationProgress, isGeneratingPresentation,
                 presentationGenProgress, presentationError, inputVars, now,
                 genTasks, chatTasks, presTasks, videoTasks>>

\* a mutation of DiagramOrError: the gateway's result is stored as returned
DiagramAsReturned(mermaidCode) == mermaidCode

\* mermaidCode || 'error'
DiagramOrError(mermaidCode) == OrElse(mermaidCode, "error")

DiagramResolved(d, mermaidCode) ==
  /\ d \in diagTasks
  /\ diagTasks' = diagTasks \ {d}
  /\ WriteStore(d.id, [blockDiagramMermaid |-> DiagramOrError(mermaidCode)])
  /\ isGeneratingDiagram' = FALSE
  /\ UNCHANGED <<isLoading, error, isAwaitingChatResponse, videoGenerationProgress,
                 isGeneratingPresentation, presentationGenProgress, presentationError,
                 diagramError, inputVars, now, calls, gatewayCalls,
                 genTasks, chatTasks, presTasks, videoTasks>>

DiagramRejected(d, message) ==
  /\ d \in diagTasks
  /\ diagTasks' = diagTasks \ {d}
  /\ diagramError' = OrElse(message, "Failed to generate diagram.")
  /\ WriteStore(d.id, [blockDiagramMermaid |-> "error"])
  /\ isGeneratingDiagram' = FALSE
  /\ UNCHANGED <<isLoading, error, isAwaitingChatResponse, videoGenerationProgress,
                 isGeneratingPresentation, presentationGenProgress, presentationError,
                 inputVars, now, calls, gatewayCalls,
                 genTasks, chatTasks, presTasks, videoTasks>>

\* a mutation of DiagramStoreThrows: the flag is reset at the end of the catch
\* block, after the store update, instead of in finally
DiagramStoreThrowsNoFinally(d, message) ==
  /\ d \in diagTasks
  /\ diagTasks' = diagTasks \ {d}
  /\ diagramError' = OrElse(message, "Failed to generate diagram.")
  /\ UNCHANGED <<store, pageVars, playerVars, isLoading, error, isAwaitingChatResponse,
                 videoGenerationProgress, isGeneratingPresentation,
                 presentationGenProgress, presentationError, isGeneratingDiagram,
                 inputVars, now, calls, gatewayCalls,
                 genTasks, chatTasks, presTasks, videoTasks>>

\* an error was caught (from the gateway, or from the store update of the try
\* block) and the store update of the catch block threw: finally still runs
DiagramStoreThrows(d, message) ==
  /\ d \in diagTasks
  /\ diagTasks' = diagTasks \ {d}
  /\ diagramError' = OrElse(message, "Failed to generate diagram.")
  /\ isGeneratingDiagram' = FALSE
  /\ UNCHANGED <<store, pageVars, playerVars, isLoading, error, isAwaitingChatResponse,
                 videoGenerationProgress, isGeneratingPresentation,
                 presentationGenProgress, presentationError,
                 inputVars, now, calls, gatewayCalls,
                 genTasks, chatTasks, presTasks, videoTasks>>

Diagram ==
  \/ HandleGenerateBlockDiagram
  \/ \E d \in diagTasks : \E mermaidCode \in DiagramResults : DiagramResolved(d, mermaidCode)
  \/ \E d \in diagTasks : \E message \in ErrMessages : DiagramRejected(d, message)
  \/ \E d \in diagTasks : \E message \in ErrMessages : DiagramStoreThrows(d, message)

\* ----------------------------------------------------- handleGenerateVideo
\* what generateVideoAssets can resolve to: nothing, or scenes with or without image
VideoResults ==
  {NoScenes} \cup
  {[defined |-> TRUE, scenes |-> <<[script |-> "sc", imageUrl |-> u]>>] :
      u \in {Undefined, "img3"}}

\* scenes || []
ScenesOrEmpty(scenes) ==
  IF scenes.defined THEN scenes ELSE [defined |-> TRUE, scenes |-> <<>>]

HandleGenerateVideo ==
  /\ Mounted /\ calls < MaxCalls
  /\ calls' = calls + 1
  /\ IF ExplanationMissing
     THEN /\ error' = [error EXCEPT !["video"] = ExplanationFirstShort]
          /\ UNCHANGED <<isLoading, videoGenerationProgress, gatewayCalls, videoTasks>>
     ELSE /\ isLoading' = [isLoading EXCEPT !["video"] = TRUE]
          /\ error' = [error EXCEPT !["video"] = Null]
          /\ videoGenerationProgress' = "Starting video generation..."
          /\ gatewayCalls' = gatewayCalls + 1
          /\ videoTasks' = videoTasks \cup {[n |-> calls + 1, id |-> material[1].id]}
  /\ UNCHANGED <<store, pageVars, playerVars, isAwaitingChatResponse, isGeneratingPresentation,
                 presentationGenProgress, presentationError, isGeneratingDiagram,
                 diagramError, inputVars, now, genTasks, chatTasks, presTasks, diagTasks>>

\* (progress) => setVideoGenerationProgress(progress), called by generateVideoAssets
VideoProgress(v) ==
  /\ v \in videoTasks
  /\ videoGenerationProgress # "Generating scene visuals..."
  /\ videoGenerationProgress' = "Generating scene visuals..."
  /\ UNCHANGED <<store, pageVars, playerVars, isLoading, error, isAwaitingChatResponse,
                 isGeneratingPresentation, presentationGenProgress, presentationError,
                 isGeneratingDiagram, diagramError, inputVars, now, calls, gatewayCalls,
                 taskVars>>

VideoResolved(v, scenes) ==
  /\ v \in videoTasks
  /\ videoTasks' = videoTasks \ {v}
  /\ WriteStore(v.id, [videoScenes |-> ScenesOrEmpty(scenes)])
  /\ isLoading' = [isLoading EXCEPT !["video"] = FALSE]
  /\ videoGenerationProgress' = ""
  /\ UNCHANGED <<error, isAwaitingChatResponse, isGeneratingPresentation,
                 presentationGenProgress, presentationError, isGeneratingDiagram,
                 diagramError, inputVars, now, calls, gatewayCalls,
                 genTasks, chatTasks, presTasks, diagTasks>>

\* a mutation of VideoRejected: the catch block also stores an empty scene
\* list, as the diagram's catch block stores 'error'
VideoRejectedStoresEmpty(v, message) ==
  /\ v \in videoTasks
  /\ videoTasks' = videoTasks \ {v}
  /\ error' = [error EXCEPT !["video"] = OrElse(message, UnknownError)]
  /\ WriteStore(v.id, [videoScenes |-> ScenesOrEmpty(NoScenes)])
  /\ isLoading' = [isLoading EXCEPT !["video"] = FALSE]
  /\ videoGenerationProgress' = ""
  /\ UNCHANGED <<isAwaitingChatResponse, isGeneratingPresentation,
                 presentationGenProgress, presentationError, isGeneratingDiagram,
                 diagramError, inputVars, now, calls, gatewayCalls,
                 genTasks, chatTasks, presTasks, diagTasks>>

\* generateVideoAssets rejected, or updateStudyMaterial threw in the try block:
\* catch, then finally
VideoRejected(v, message) ==
  /\ v \in videoTasks
  /\ videoTasks' = videoTasks \ {v}
  /\ error' = [error EXCEPT !["video"] = OrElse(message, UnknownError)]
  /\ isLoading' = [isLoading EXCEPT !["video"] = FALSE]
  /\ videoGenerationProgress' = ""
  /\ UNCHANGED <<store, pageVars, playerVars, isAwaitingChatResponse, isGeneratingPresentation,
                 presentationGenProgress, presentationError, isGeneratingDiagram,
                 diagramError, inputVars, now, calls, gatewayCalls,
                 genTasks, chatTasks, presTasks, diagTasks>>

Video ==
  \/ HandleGenerateVideo
  \/ \E v \in videoTasks : VideoProgress(v)
  \/ \E v \in videoTasks : \E scenes \in VideoResults : VideoResolved(v, scenes)
  \/ \E v \in videoTasks : \E message \in ErrMessages : VideoRejected(v, message)

\* ------------------------------------------------------ the rendered page
\* What the user can do through the rendered controls: a handler runs only
\* when its control is shown and not disabled.

\* `if (!material) return <LoadingSpinner .../>`: the controls exist
Rendered == Mounted /\ material # <<>>

\* disabled={!material.extractedText || isLoading.explanation}
ExplanationButtonDisabled ==
  Falsy(material[1].extractedText) \/ isLoading["explanation"]

\* disabled={!material.extractedText || isLoading.notes}
NotesButtonDisabled ==
  Falsy(material[1].extractedText) \/ isLoading["notes"]

\* Regenerate is shown, always enabled, when a presentation is stored and none
\* is being generated; otherwise Generate, with
\* disabled={!material.aiExplanation || isGeneratingPresentation}
PresentationButtonDisabled ==
  \/ isGeneratingPresentation
  \/ ~material[1].presentationContent.defined /\ Falsy(material[1].aiExplanation)

\* disabled={!material.aiExplanation || isGeneratingDiagram}
DiagramButtonDisabled ==
  Falsy(material[1].aiExplanation) \/ isGeneratingDiagram

\* disabled={!material.aiExplanation || isLoading.video}
VideoButtonDisabled ==
  Falsy(material[1].aiExplanation) \/ isLoading["video"]

\* a mutation of TextareaDisabled: the textarea stays enabled during a request
TextareaNeverDisabled == FALSE

\* <textarea ... disabled={isAwaitingChatResponse} />
TextareaDisabled == isAwaitingChatResponse

\* disabled={!chatInput.trim() || isAwaitingChatResponse}
SendButtonDisabled == Trim(chatInput) = <<>> \/ isAwaitingChatResponse

ClickNoteLength == Rendered /\ SetSelectedNoteLength

\* typing into the textarea while it is enabled
TypeIntoTextarea ==
  /\ Rendered /\ ~TextareaDisabled
  /\ \E s \in ChatInputs : TypeChatInput(s)
  /\ UNCHANGED calls

ClickExplanation ==
  Rendered /\ ~ExplanationButtonDisabled /\ HandleGenerate("explanation")

ClickNotes == Rendered /\ ~NotesButtonDisabled /\ HandleGenerate("notes")

ClickPresentation ==
  Rendered /\ ~PresentationButtonDisabled /\ HandleGenerateFullPresentation

ClickDiagram == Rendered /\ ~DiagramButtonDisabled /\ HandleGenerateBlockDiagram

ClickVideo == Rendered /\ ~VideoButtonDisabled /\ HandleGenerateVideo

\* Enter in the enabled textarea, or a click on the enabled Send button
SendFromPage ==
  /\ Rendered
  /\ ~TextareaDisabled \/ ~SendButtonDisabled
  /\ \E t \in ClockReadings : HandleSendMessage(NoOverride, t)

\* a pending gateway call settles, or reports progress
Settle ==
  \/ \E t \in genTasks : \E result \in GeneratedTexts : GenerateResolved(t, result)
  \/ \E t \in genTasks : GenerateRejected(t)
  \/ \E c \in chatTasks : \E aiText \in AiTexts : \E g \in GroundingSources :
        \E t \in ClockReadings : ChatResolved(c, aiText, g, t)
  \/ \E c \in chatTasks : \E t \in ClockReadings : ChatRejected(c, t)
  \/ \E c \in chatTasks : \E t \in ClockReadings : ChatStoreThrows(c, t)
  \/ \E p \in presTasks : \E content \in ContentResults :
        PresentationContentResolved(p, content)
  \/ \E p \in presTasks : \E message \in ErrMessages : PresentationRejected(p, message)
  \/ \E p \in presTasks : PresentationProgress(p)
  \/ \E p \in presTasks : \E cwi \in ImageResults(p.content) :
        PresentationImagesResolved(p, cwi)
  \/ \E p \in presTasks : \E message \in ErrMessages : PresentationStoreThrows(p, message)
  \/ \E d \in diagTasks : \E mermaidCode \in DiagramResults : DiagramResolved(d, mermaidCode)
  \/ \E d \in diagTasks : \E message \in ErrMessages : DiagramRejected(d, message)
  \/ \E d \in diagTasks : \E message \in ErrMessages : DiagramStoreThrows(d, message)
  \/ \E v \in videoTasks : VideoProgress(v)
  \/ \E v \in videoTasks : \E scenes \in VideoResults : VideoResolved(v, scenes)
  \/ \E v \in videoTasks : \E message \in ErrMessages : VideoRejected(v, message)

NextUI ==
  \/ LoadEffect
  \/ ClickNoteLength
  \/ TypeIntoTextarea
  \/ ClickExplanation
  \/ ClickNotes
  \/ ClickPresentation
  \/ ClickDiagram
  \/ ClickVideo
  \/ SendFromPage
  \/ Settle

\* the page as the user drives it through its controls
SpecUI == Init /\ [][NextUI]_vars

\* ------------------------------------------------------------ VideoPlayer
\* The player of a scene list of NumScenes scenes, indexed from 0 as in the
\* code, and the browser's speech synthesis as the player uses it.

\* new SpeechSynthesisUtterance(scenes[k].script) with its onend handler:
\* "advance" is the handler set in speakCurrent, "stop" that of the timer
Utterance(k, onend) == [scene |-> k, onend |-> onend]

\* window.speechSynthesis.cancel(): every utterance leaves the queue
SynthCancel(sy) == [sy EXCEPT !.queue = <<>>, !.last = "cancel"]

\* window.speechSynthesis.speak(u): u joins the queue
SynthSpeak(sy, u) ==
  [queue |-> Append(sy.queue, u), last |-> "speak",
   uncancelled |-> sy.uncancelled \/ sy.last # "cancel"]

\* Browsers differ in what cancel() does to the utterance being spoken: its
\* `end` event is dispatched later (fires), or only an `error` event is.
EndEventsAfterCancel(fires) ==
  IF fires /\ synth.queue # <<>> THEN Append(endEvents, Head(synth.queue)) ELSE endEvents

\* the speechSynthesis calls of speakCurrent on scene k
SpeakCurrent(sy, k) == SynthSpeak(SynthCancel(sy), Utterance(k, "advance"))

\* a mutation of SpeakNext: the timer callback speaks without cancelling
SpeakNextNoCancel(sy, next) == SynthSpeak(sy, Utterance(next, "stop"))

\* the speechSynthesis calls of the setTimeout callback of the auto-advance
SpeakNext(sy, next) == SynthSpeak(SynthCancel(sy), Utterance(next, "stop"))

\* onClick of the play/pause button
HandlePlayPause(fires) ==
  /\ playerMounted /\ presses < MaxPresses
  /\ presses' = presses + 1
  /\ endEvents' = EndEventsAfterCancel(fires)
  /\ IF isPlaying
     THEN /\ synth' = SynthCancel(synth)
          /\ isPlaying' = FALSE
          /\ UNCHANGED utteranceRef
     ELSE /\ isPlaying' = TRUE
          /\ synth' = SpeakCurrent(synth, currentSceneIndex)
          /\ utteranceRef' = <<Utterance(currentSceneIndex, "advance")>>
  /\ UNCHANGED <<playerMounted, currentSceneIndex, timers, studyVars>>

\* onClick of the previous-scene button, disabled on the first scene
PreviousScene(fires) ==
  /\ playerMounted /\ presses < MaxPresses
  /\ currentSceneIndex # 0
  /\ presses' = presses + 1
  /\ endEvents' = EndEventsAfterCancel(fires)
  /\ synth' = SynthCancel(synth)
  /\ isPlaying' = FALSE
  /\ currentSceneIndex' = IF currentSceneIndex - 1 > 0 THEN currentSceneIndex - 1 ELSE 0
  /\ UNCHANGED <<playerMounted, utteranceRef, timers, studyVars>>

\* onClick of the next-scene button, disabled on the last scene
NextScene(fires) ==
  /\ playerMounted /\ presses < MaxPresses
  /\ currentSceneIndex # NumScenes - 1
  /\ presses' = presses + 1
  /\ endEvents' = EndEventsAfterCancel(fires)
  /\ synth' = SynthCancel(synth)
  /\ isPlaying' = FALSE
  /\ currentSceneIndex' = IF currentSceneIndex + 1 < NumScenes - 1
                          THEN currentSceneIndex + 1 ELSE NumScenes - 1
  /\ UNCHANGED <<playerMounted, utteranceRef, timers, studyVars>>

\* utterance u's onend handler runs. On the mounted player the state updates
\* apply: the "advance" handler moves to the next scene, sets isPlaying and
\* defers the speaking of that scene to a timer. On an unmounted player the
\* state updates are dropped; whether React still evaluates the updater of
\* setCurrentSceneIndex (and with it the setTimeout) is its choice (evaluates).
OnEnd(u, evaluates) ==
  IF u.onend = "stop"
  THEN /\ isPlaying' = (IF playerMounted THEN FALSE ELSE isPlaying)
       /\ UNCHANGED <<currentSceneIndex, timers>>
  ELSE IF playerMounted
       THEN IF currentSceneIndex + 1 < NumScenes
            THEN /\ isPlaying' = TRUE
                 /\ currentSceneIndex' = currentSceneIndex + 1
                 /\ timers' = Append(timers, currentSceneIndex + 1)
            ELSE /\ isPlaying' = FALSE
                 /\ UNCHANGED <<currentSceneIndex, timers>>
       ELSE /\ timers' = IF evaluates /\ currentSceneIndex + 1 < NumScenes
                         THEN Append(timers, currentSceneIndex + 1) ELSE timers
            /\ UNCHANGED <<isPlaying, currentSceneIndex>>

\* the utterance being spoken comes to its end
UtteranceEnds(evaluates) ==
  /\ synth.queue # <<>>
  /\ synth' = [synth EXCEPT !.queue = Tail(@)]
  /\ OnEnd(Head(synth.queue), evaluates)
  /\ UNCHANGED <<playerMounted, utteranceRef, endEvents, presses, studyVars>>

\* the `end` event of an interrupted utterance is dispatched
EndEventFires(evaluates) ==
  /\ endEvents # <<>>
  /\ endEvents' = Tail(endEvents)
  /\ OnEnd(Head(endEvents), evaluates)
  /\ UNCHANGED <<playerMounted, utteranceRef, synth, presses, studyVars>>

\* the callback of setTimeout(..., 0) runs; nothing clears these timers
TimerFires(fires) ==
  /\ timers # <<>>
  /\ timers' = Tail(timers)
  /\ endEvents' = EndEventsAfterCancel(fires)
  /\ synth' = SpeakNext(synth, Head(timers))
  /\ utteranceRef' = <<Utterance(Head(timers), "stop")>>
  /\ UNCHANGED <<playerMounted, currentSceneIndex, isPlaying, presses, studyVars>>

\* the cleanup of the mount effect
Unmount(fires) ==
  /\ playerMounted
  /\ playerMounted' = FALSE
  /\ endEvents' = EndEventsAfterCancel(fires)
  /\ synth' = SynthCancel(synth)
  /\ utteranceRef' = <<>>
  /\ UNCHANGED <<currentSceneIndex, isPlaying, timers, presses, studyVars>>

NextPlayer ==
  \/ \E fires \in BOOLEAN : HandlePlayPause(fires)
  \/ \E fires \in BOOLEAN : PreviousScene(fires)
  \/ \E fires \in BOOLEAN : NextScene(fires)
  \/ \E evaluates \in BOOLEAN : UtteranceEnds(evaluates)
  \/ \E evaluates \in BOOLEAN : EndEventFires(evaluates)
  \/ \E fires \in BOOLEAN : TimerFires(fires)
  \/ \E fires \in BOOLEAN : Unmount(fires)

\* the video player on its own, over a fixed scene list
InitPlayer == Init /\ contentId = "m2"

SpecPlayer == InitPlayer /\ [][NextPlayer]_vars

\* ------------------------------------------------------------ specification
Next ==
  \/ LoadEffect
  \/ SetSelectedNoteLength
  \/ SetChatInput
  \/ Generate
  \/ Chat
  \/ Presentation
  \/ Diagram
  \/ Video

Spec == Init /\ [][Next]_vars

\* ------------------------------------------------------------------ helpers
IsPrefix(s, t) == Len(s) <= Len(t) /\ SubSeq(t, 1, Len(s)) = s

\* every field of record `id` but those in `fields`, and every other record,
\* is the same before and after the step
OnlyFieldsChange(id, fields) ==
  /\ \A f \in DOMAIN store[id] \ fields : store'[id][f] = store[id][f]
  /\ \A m \in DOMAIN store \ {id} : store'[m] = store[m]

\* ------------------------------------------------------------------- claims

\* C1: a notes generation started with length L selected stores the gateway
\* result at notes[L]; every other length holds after completion the text
\* that was stored before the invocation, and no other field of the record
\* (nor any other record) changes.
C1_NotesWriteSelectedLengthOnly ==
  [][\A g \in genTasks : \A result \in GeneratedTexts :
       (g.type = "notes" /\ GenerateResolved(g, result)) =>
          /\ store'[g.id].notes[g.len] = result
          /\ \A l \in NoteLength \ {g.len} : store'[g.id].notes[l] = g.storedNotes[l]
          /\ OnlyFieldsChange(g.id, {"notes"})]_vars

\* DETAILED notes were generated while SHORT notes existed; SHORT is as before
C1_Witness ==
  /\ store["m2"].notes["SHORT"] = "n1"
  /\ store["m2"].notes["DETAILED"] = "g1"
  /\ genTasks = {}

\* C2: a successful explanation (re)generation replaces aiExplanation with
\* the gateway result and changes no other field of the record and no other
\* record.
C2_ExplanationWriteOnly ==
  [][\A g \in genTasks : \A result \in GeneratedTexts :
       (g.type = "explanation" /\ GenerateResolved(g, result)) =>
          /\ store'[g.id].aiExplanation = result
          /\ OnlyFieldsChange(g.id, {"aiExplanation"})]_vars

\* the explanation "e1" of m2 was regenerated; notes and chat are as stored
C2_Witness ==
  /\ store["m2"].aiExplanation = "g1"
  /\ store["m2"].notes = InitialStore["m2"].notes
  /\ store["m2"].chatHistory = InitialStore["m2"].chatHistory
  /\ genTasks = {}

\* C3: presentation, video or diagram generation invoked while the material's
\* aiExplanation is absent or empty issues no AI Gateway call (none is put in
\* flight) and sets that feature's error message to a non-empty text.
C3_NoGatewayCallWithoutExplanation ==
  [][/\ (HandleGenerateFullPresentation /\ Falsy(MaterialExplanation)) =>
          /\ gatewayCalls' = gatewayCalls /\ presTasks' = presTasks
          /\ Truthy(presentationError')
     /\ (HandleGenerateBlockDiagram /\ Falsy(MaterialExplanation)) =>
          /\ gatewayCalls' = gatewayCalls /\ diagTasks' = diagTasks
          /\ Truthy(diagramError')
     /\ (HandleGenerateVideo /\ Falsy(MaterialExplanation)) =>
          /\ gatewayCalls' = gatewayCalls /\ videoTasks' = videoTasks
          /\ Truthy(error'["video"])]_vars

\* video generation was refused on a loaded material whose explanation is the
\* empty text, and diagram generation was refused too
C3_Witness ==
  /\ material # <<>> /\ Falsy(material[1].aiExplanation)
  /\ error["video"] = ExplanationFirstShort
  /\ diagramError = ExplanationFirstShort
  /\ videoTasks = {} /\ diagTasks = {}

\* C4: presentation generation invoked with the explanation absent sets
\* presentationError to "An explanation must be generated first..." and
\* changes nothing else: the stored presentationContent, the in-progress
\* flag and the progress text keep their values.
C4_PresentationPreconditionFrame ==
  [][(HandleGenerateFullPresentation /\ Falsy(MaterialExplanation)) =>
        /\ presentationError' = ExplanationFirst
        /\ store' = store
        /\ isGeneratingPresentation' = isGeneratingPresentation
        /\ presentationGenProgress' = presentationGenProgress
        /\ UNCHANGED <<pageVars, isLoading, error, isAwaitingChatResponse,
                       videoGenerationProgress, isGeneratingDiagram, diagramError,
                       inputVars, now, gatewayCalls, taskVars>>]_vars

\* the presentation was refused for the loaded m1, which has no explanation
C4_Witness ==
  /\ material # <<>> /\ material[1].aiExplanation = Undefined
  /\ presentationError = ExplanationFirst
  /\ ~isGeneratingPresentation /\ presentationGenProgress = ""
  /\ ~store[material[1].id].presentationContent.defined

\* C5: when phase 1 succeeded and phase 2 (generatePresentationImages) throws
\* or returns nothing, the completing workflow leaves presentationContent
\* absent in the store and presentationError a non-empty message.
C5_Phase2FailureClearsContent ==
  [][\A p \in presTasks :
       (/\ p.pc = "images"
        /\ \/ \E message \in ErrMessages : PresentationRejected(p, message)
           \/ PresentationImagesResolved(p, NoPresentation)) =>
          /\ ~store'[p.id].presentationContent.defined
          /\ Truthy(presentationError')]_vars

\* phase 2 returned nothing for m2: its presentation is gone, the error is set
C5_Witness ==
  /\ presentationError = NoImagesMessage
  /\ ~store["m2"].presentationContent.defined
  /\ presTasks = {}

\* C6: when phase 2 ends with no slide having an image URL (it throws, or the
\* content it returns has no imageUrl on any slide), presentationContent ends
\* absent, never stored without images.
C6_AllImagesFailedClearsContent ==
  [][\A p \in presTasks :
       /\ \A message \in ErrMessages :
            (p.pc = "images" /\ PresentationRejected(p, message)) =>
               ~store'[p.id].presentationContent.defined
       /\ \A cwi \in ImageResults(p.content) :
            (PresentationImagesResolved(p, cwi) /\ NoSlideWithImage(cwi)) =>
               ~store'[p.id].presentationContent.defined]_vars

\* C7: when phase 2 returns content in which some slide has an image and some
\* slide has none, that content is stored as returned, presentationError is a
\* non-empty warning, and the content is not rolled back.
C7_PartialImagesRetained ==
  [][\A p \in presTasks : \A cwi \in ImageResults(p.content) :
       (/\ PresentationImagesResolved(p, cwi)
        /\ cwi.defined
        /\ SomeSlideWithoutImage(cwi) /\ ~NoSlideWithImage(cwi)) =>
          /\ store'[p.id].presentationContent = cwi
          /\ store'[p.id].presentationContent.defined
          /\ Truthy(presentationError')
          /\ ~isGeneratingPresentation']_vars

\* m2 holds a generated deck whose first slide has its image and whose second
\* has none, with the warning shown
C7_Witness ==
  /\ store["m2"].presentationContent.defined
  /\ store["m2"].presentationContent.title = "deck2"
  /\ store["m2"].presentationContent.slides[1].imageUrl = "img2"
  /\ store["m2"].presentationContent.slides[2].imageUrl = Undefined
  /\ presentationError = SomeVisualsMissing
  /\ presTasks = {}

\* C8: when the reply to a message sent while the stored history was H
\* arrives, the stored history becomes H, userM, aiReply: userM once, the
\* reply (with its grounding sources) last, never H, aiReply.
C8_ChatSuccessHistory ==
  [][\A c \in chatTasks : \A aiText \in AiTexts : \A g \in GroundingSources :
       \A t \in ClockReadings :
       ChatResolved(c, aiText, g, t) =>
          LET h == store'[c.id].chatHistory IN
          /\ Len(h) = Len(c.storedHistory) + 2
          /\ SubSeq(h, 1, Len(c.storedHistory)) = c.storedHistory
          /\ h[Len(h) - 1] = c.userMessage
          /\ h[Len(h)].sender = "ai"
          /\ h[Len(h)].text = aiText
          /\ h[Len(h)].groundingSources = g]_vars

\* m2's history is [A, B, userM, aiReply], the reply carrying its source
C8_Witness ==
  LET h == store["m2"].chatHistory IN
  /\ Len(h) = 4
  /\ SubSeq(h, 1, 2) = InitialStore["m2"].chatHistory
  /\ h[3].sender = "user"
  /\ h[4].sender = "ai" /\ h[4].id.prefix = "msg" /\ h[4].groundingSources = <<"uri1">>
  /\ chatTasks = {}

\* C9: when the gateway call fails, one apology message with sender 'ai' is
\* appended to the stored history; for a message sent while the stored history
\* was H, with nothing else written since, the history becomes H, userM,
\* errorReply: userM is neither lost nor duplicated.
C9_ChatFailureHistory ==
  [][\A c \in chatTasks : \A t \in ClockReadings :
       ChatRejected(c, t) =>
          LET h == store'[c.id].chatHistory IN
          /\ Len(h) = Len(store[c.id].chatHistory) + 1
          /\ SubSeq(h, 1, Len(h) - 1) = store[c.id].chatHistory
          /\ h[Len(h)].sender = "ai"
          /\ h[Len(h)].text = ApologyText
          /\ h[Len(h)].id.prefix = "err"
          /\ (store[c.id].chatHistory = c.storedHistory \o <<c.userMessage>>) =>
                h = c.storedHistory \o <<c.userMessage, h[Len(h)]>>]_vars

\* m2's history is [A, B, userM, errorReply]
C9_Witness ==
  LET h == store["m2"].chatHistory IN
  /\ Len(h) = 4
  /\ SubSeq(h, 1, 2) = InitialStore["m2"].chatHistory
  /\ h[3].sender = "user"
  /\ h[4].sender = "ai" /\ h[4].id.prefix = "err"
  /\ chatTasks = {}

\* C10: the history written when a chat request completes is based on the
\* history in the store at completion: every message in the store before the
\* completion write is still there, in order, after it (append-only).
C10_ChatCompletionAppendOnly ==
  [][\A c \in chatTasks :
       (\/ \E aiText \in AiTexts : \E g \in GroundingSources : \E t \in ClockReadings :
              ChatResolved(c, aiText, g, t)
        \/ \E t \in ClockReadings : ChatRejected(c, t)) =>
          IsPrefix(store[c.id].chatHistory, store'[c.id].chatHistory)]_vars

\* C11: the stored blockDiagramMermaid of every record is absent, a non-empty
\* diagram text, or exactly "error", never the empty text: a gateway result
\* that is empty or missing and a thrown gateway error are both stored as
\* "error".
C11_DiagramNeverEmpty ==
  [][/\ \A m \in DOMAIN store' :
          /\ store'[m].blockDiagramMermaid # ""
          /\ store'[m].blockDiagramMermaid # Null
          /\ store'[m].blockDiagramMermaid \in {Undefined, "error"} \cup DiagramResults
     /\ \A d \in diagTasks :
          /\ \A mermaidCode \in DiagramResults :
               (DiagramResolved(d, mermaidCode) /\ mermaidCode \in {"", Undefined}) =>
                  store'[d.id].blockDiagramMermaid = "error"
          /\ \A message \in ErrMessages :
               DiagramRejected(d, message) =>
                  store'[d.id].blockDiagramMermaid = "error"]_vars

\* the gateway resolved with nothing usable for m2: "error" is stored although
\* no error was thrown
C11_Witness ==
  /\ store["m2"].blockDiagramMermaid = "error"
  /\ diagramError = Null
  /\ ~isGeneratingDiagram /\ diagTasks = {}

\* C12: a workflow that set its in-progress flag has that flag false once its
\* gateway call has settled and the workflow has ended: the step in which an
\* invocation ends (result stored, gateway failure caught, or the store update
\* throwing) leaves the flag of its feature false.
C12_FlagClearedWhenSettled ==
  [][/\ \A g \in genTasks \ genTasks' : ~isLoading'[g.type]
     /\ \A v \in videoTasks \ videoTasks' : ~isLoading'["video"]
     /\ \A c \in chatTasks \ chatTasks' : ~isAwaitingChatResponse'
     /\ \A d \in diagTasks \ diagTasks' : ~isGeneratingDiagram'
     /\ \A p \in presTasks :
          (\A q \in presTasks' : q.n # p.n) => ~isGeneratingPresentation']_vars

\* the diagram workflow of m2 ended with the store update throwing: the error
\* is shown, nothing was stored, and the flag is false
C12_Witness ==
  /\ Truthy(diagramError) /\ diagramError # ExplanationFirstShort
  /\ store["m2"].blockDiagramMermaid = Undefined
  /\ contentId = "m2"
  /\ ~isGeneratingDiagram /\ diagTasks = {}

\* C13: generatePresentationImages is issued only in a step that has written
\* the phase-1 content to presentationContent in the store; when phase 1
\* fails or returns nothing, the invocation ends without a further gateway
\* call.
C13_ImagesOnlyAfterContentStored ==
  [][/\ \A q \in presTasks' \ presTasks :
          q.pc = "images" =>
             /\ q.content.defined
             /\ store'[q.id].presentationContent = q.content
             /\ gatewayCalls' = gatewayCalls + 1
     /\ \A p \in presTasks :
          (/\ p.pc = "content"
           /\ \/ PresentationContentResolved(p, NoPresentation)
              \/ \E message \in ErrMessages : PresentationRejected(p, message)
              \/ \E message \in ErrMessages : PresentationStoreThrows(p, message)) =>
             /\ gatewayCalls' = gatewayCalls
             /\ \A q \in presTasks' : q.n # p.n]_vars

\* phase 2 is in flight for m2 and the store holds the phase-1 content, whose
\* slides have no image yet
C13_Witness ==
  \E p \in presTasks :
    /\ p.pc = "images" /\ p.id = "m2"
    /\ store["m2"].presentationContent = GeneratedContent
    /\ NoSlideWithImage(store["m2"].presentationContent)

\* C14: for each of the seven features, a failure of its gateway call is
\* caught by the workflow and leaves the feature's error message a non-empty
\* text with the in-progress flag false; an invocation that passes its
\* precondition resets the feature's error message to none.
C14_GatewayFailureSetsError ==
  [][/\ \A g \in genTasks :
          GenerateRejected(g) => Truthy(error'[g.type]) /\ ~isLoading'[g.type]
     /\ \A v \in videoTasks : \A message \in ErrMessages :
          VideoRejected(v, message) => Truthy(error'["video"]) /\ ~isLoading'["video"]
     /\ \A p \in presTasks : \A message \in ErrMessages :
          PresentationRejected(p, message) =>
             Truthy(presentationError') /\ ~isGeneratingPresentation'
     /\ \A d \in diagTasks : \A message \in ErrMessages :
          DiagramRejected(d, message) => Truthy(diagramError') /\ ~isGeneratingDiagram'
     /\ \A c \in chatTasks : \A t \in ClockReadings :
          ChatRejected(c, t) => Truthy(error'["chat"]) /\ ~isAwaitingChatResponse'
     /\ \A type \in GenerateTypes :
          (HandleGenerate(type) /\ genTasks' # genTasks) => Falsy(error'[type])
     /\ (HandleGenerateVideo /\ videoTasks' # videoTasks) => Falsy(error'["video"])
     /\ (HandleGenerateFullPresentation /\ presTasks' # presTasks) =>
          Falsy(presentationError')
     /\ (HandleGenerateBlockDiagram /\ diagTasks' # diagTasks) => Falsy(diagramError')
     /\ \A textOverride \in TextOverrides : \A t \in ClockReadings :
          (HandleSendMessage(textOverride, t) /\ chatTasks' # chatTasks) =>
             Falsy(error'["chat"])]_vars

\* C15: whatever workflows of other features are in flight on the material,
\* a step of a workflow changes only the field of its own feature (aiSummary,
\* aiExplanation, notes, chatHistory, presentationContent,
\* blockDiagramMermaid, videoScenes) in the record it addresses, and nothing
\* else writes the store: no field is overwritten or reverted by another
\* feature's write.
C15_WritesConfinedToOwnField ==
  [][/\ \A g \in genTasks \ genTasks' :
          OnlyFieldsChange(g.id, {CASE g.type = "summary" -> "aiSummary"
                                    [] g.type = "explanation" -> "aiExplanation"
                                    [] g.type = "notes" -> "notes"})
     /\ \A c \in (chatTasks \ chatTasks') \cup (chatTasks' \ chatTasks) :
          OnlyFieldsChange(c.id, {"chatHistory"})
     /\ \A p \in (presTasks \ presTasks') \cup (presTasks' \ presTasks) :
          OnlyFieldsChange(p.id, {"presentationContent"})
     /\ \A d \in diagTasks \ diagTasks' :
          OnlyFieldsChange(d.id, {"blockDiagramMermaid"})
     /\ \A v \in videoTasks \ videoTasks' :
          OnlyFieldsChange(v.id, {"videoScenes"})
     /\ (/\ genTasks \ genTasks' = {} /\ chatTasks' = chatTasks
         /\ presTasks' = presTasks /\ diagTasks \ diagTasks' = {}
         /\ videoTasks \ videoTasks' = {}) => store' = store]_vars

\* a notes generation of m2 is still in flight; a diagram generation started
\* after it has already stored its result, and the notes and the explanation
\* are as they were
C15_Witness ==
  \E g \in genTasks :
    /\ g.type = "notes" /\ g.n = 1 /\ g.id = "m2"
    /\ store["m2"].blockDiagramMermaid = "graph TD; A-->B"
    /\ store["m2"].notes = InitialStore["m2"].notes
    /\ store["m2"].aiExplanation = InitialStore["m2"].aiExplanation

\* C16: driven through the page's controls, the chat is IDLE (no request, flag
\* false) or AWAITING_RESPONSE (one request, flag true): a send is accepted
\* only when IDLE, a reply or failure returns to IDLE, and at most one chat
\* gateway request is in flight.
C16_ChatSingleFlight ==
  /\ Cardinality(chatTasks) <= 1
  /\ isAwaitingChatResponse <=> chatTasks # {}
  /\ isAwaitingChatResponse => TextareaDisabled /\ SendButtonDisabled

\* a request is in flight and the user message is already in the history
C16_Witness ==
  /\ isAwaitingChatResponse
  /\ \E c \in chatTasks :
       /\ store[c.id].chatHistory = c.storedHistory \o <<c.userMessage>>
       /\ c.userMessage.text = <<"b">>

\* C17: the scene scripts are in videoScenes in the store before image
\* generation runs (when the gateway reports progress on the scene visuals),
\* and a failure after image generation began leaves them stored.
C17_ScriptsStoredBeforeImages ==
  [][\A v \in videoTasks :
       /\ VideoProgress(v) =>
            /\ store[v.id].videoScenes.defined
            /\ Len(store[v.id].videoScenes.scenes) > 0
       /\ \A message \in ErrMessages :
            (/\ videoGenerationProgress = "Generating scene visuals..."
             /\ VideoRejected(v, message)) =>
               /\ store'[v.id].videoScenes.defined
               /\ Len(store'[v.id].videoScenes.scenes) > 0]_vars

\* C18: invocations of one feature on one material may overlap, and nothing
\* fences their writes: whenever an invocation completes with a result, the
\* field holds that invocation's value after the step, whether or not an
\* invocation started later is in flight or has already written. The value
\* that stays is that of the invocation completing last.
C18_LastCompletionWins ==
  [][/\ \A g \in genTasks : \A result \in GeneratedTexts :
          GenerateResolved(g, result) =>
             CASE g.type = "summary" -> store'[g.id].aiSummary = result
               [] g.type = "explanation" -> store'[g.id].aiExplanation = result
               [] g.type = "notes" -> store'[g.id].notes[g.len] = result
     /\ \A p \in presTasks :
          /\ \A content \in ContentResults \ {NoPresentation} :
               PresentationContentResolved(p, content) =>
                  store'[p.id].presentationContent = content
          /\ \A cwi \in ImageResults(p.content) \ {NoPresentation} :
               PresentationImagesResolved(p, cwi) =>
                  store'[p.id].presentationContent = cwi
     /\ \A d \in diagTasks : \A mermaidCode \in DiagramResults :
          DiagramResolved(d, mermaidCode) =>
             store'[d.id].blockDiagramMermaid = DiagramOrError(mermaidCode)
     /\ \A v \in videoTasks : \A scenes \in VideoResults :
          VideoResolved(v, scenes) =>
             store'[v.id].videoScenes = ScenesOrEmpty(scenes)]_vars

\* two explanation generations of m2 overlapped: the one started second has
\* completed and stored "g1" while the one started first is still in flight,
\* and will overwrite it
C18_Witness ==
  /\ calls = 2
  /\ store["m2"].aiExplanation = "g1"
  /\ \E g \in genTasks : g.type = "explanation" /\ g.n = 1 /\ g.id = "m2"

\* C19: within the chat history of a material, no two messages have the same
\* id, whatever the clock readings of the sends, replies and failures.
C19_MessageIdsDistinct ==
  \A m \in DOMAIN store :
    \A i, j \in DOMAIN store[m].chatHistory :
      i # j => store[m].chatHistory[i].id # store[m].chatHistory[j].id

\* C20: every speechSynthesis.speak of the player, from the play button and
\* from the auto-advance timer alike, directly follows a
\* speechSynthesis.cancel, and the queue of speechSynthesis never holds more
\* than one utterance.
C20_OneUtteranceAtATime ==
  /\ ~synth.uncancelled
  /\ Len(synth.queue) <= 1

\* after play, pause and play again, the auto-advance timer of the first
\* playback has fired: its utterance for scene 1 is the only one in the queue
C20_Witness ==
  /\ presses = 3 /\ isPlaying
  /\ synth.last = "speak"
  /\ synth.queue = <<Utterance(1, "stop")>>
  /\ timers = <<>>

\* C21: once the player is unmounted no utterance of it is in the queue of
\* speechSynthesis, being spoken or waiting: the cleanup released it and
\* nothing speaks afterwards, an auto-advance timer scheduled before the
\* unmount included.
C21_ReleasedAfterUnmount ==
  ~playerMounted => synth.queue = <<>>

\* what no step of the summary, explanation, notes and video workflows touches
C22_OtherState ==
  <<pageVars, playerVars, isAwaitingChatResponse, isGeneratingPresentation,
    presentationGenProgress, presentationError, isGeneratingDiagram, diagramError,
    inputVars, now, calls, gatewayCalls, chatTasks, presTasks, diagTasks>>

\* C22 as stated: a gateway failure in the summary, explanation, notes or
\* video workflow writes nothing to the store, and of the page's state only
\* that feature's error message and in-progress flag change.
C22_FailureChangesOnlyErrorAndFlag ==
  [][/\ \A g \in genTasks :
          GenerateRejected(g) =>
             /\ store' = store
             /\ \A k \in ErrorKeys \ {g.type} : error'[k] = error[k]
             /\ \A k \in LoadingKeys \ {g.type} : isLoading'[k] = isLoading[k]
             /\ UNCHANGED <<C22_OtherState, videoGenerationProgress, videoTasks>>
     /\ \A v \in videoTasks : \A message \in ErrMessages :
          VideoRejected(v, message) =>
             /\ store' = store
             /\ \A k \in ErrorKeys \ {"video"} : error'[k] = error[k]
             /\ \A k \in LoadingKeys \ {"video"} : isLoading'[k] = isLoading[k]
             /\ UNCHANGED <<C22_OtherState, videoGenerationProgress, genTasks>>]_vars

\* C22, amended: a gateway failure in the summary, explanation, notes or
\* video workflow writes nothing to the store (nor did the invocation before
\* its gateway call); of the page's state only that feature's error message
\* (set, non-empty) and in-progress flag (false) change and, for video, the
\* progress text, which is reset to the empty text.
C22_FailureWritesNothing ==
  [][/\ \A g \in genTasks :
          GenerateRejected(g) =>
             /\ store' = store
             /\ Truthy(error'[g.type]) /\ ~isLoading'[g.type]
             /\ \A k \in ErrorKeys \ {g.type} : error'[k] = error[k]
             /\ \A k \in LoadingKeys \ {g.type} : isLoading'[k] = isLoading[k]
             /\ UNCHANGED <<C22_OtherState, videoGenerationProgress, videoTasks>>
     /\ \A v \in videoTasks : \A message \in ErrMessages :
          VideoRejected(v, message) =>
             /\ store' = store
             /\ Truthy(error'["video"]) /\ ~isLoading'["video"]
             /\ \A k \in ErrorKeys \ {"video"} : error'[k] = error[k]
             /\ \A k \in LoadingKeys \ {"video"} : isLoading'[k] = isLoading[k]
             /\ videoGenerationProgress' = ""
             /\ UNCHANGED <<C22_OtherState, genTasks>>
     /\ \A type \in GenerateTypes : HandleGenerate(type) => store' = store
     /\ HandleGenerateVideo => store' = store]_vars

\* video generation of m2 failed: the error is shown, the flag and the
\* progress text are reset, and the store is as it was
C22_Witness ==
  /\ contentId = "m2"
  /\ Truthy(error["video"]) /\ error["video"] # ExplanationFirstShort
  /\ ~isLoading["video"] /\ videoGenerationProgress = ""
  /\ videoTasks = {}
  /\ store = InitialStore

\* C23: a step in which the presentation workflow fails past its
\* precondition (the content or the image generation rejects or resolves
\* with nothing) completes the invocation, records an error and leaves
\* presentationContent of the material absent, whatever was stored before.
C23_FailureDiscardsPresentation ==
  [][\A p \in presTasks :
       (\/ \E message \in ErrMessages : PresentationRejected(p, message)
        \/ PresentationContentResolved(p, NoPresentation)
        \/ PresentationImagesResolved(p, NoPresentation))
       => /\ ~store'[p.id].presentationContent.defined
          /\ Truthy(presentationError')
          /\ ~isGeneratingPresentation'
          /\ p \notin presTasks']_vars

\* m2, whose presentation was stored by an earlier invocation, has none after
\* a regeneration whose content generation returned nothing
C23_Witness ==
  /\ contentId = "m2"
  /\ InitialStore["m2"].presentationContent.defined
  /\ presentationError = NoContentMessage
  /\ presTasks = {}
  /\ ~store["m2"].presentationContent.defined

\* C24: when the page is rendered by the application's study route and the
\* id in the URL is the id of a stored material, the load effect makes
\* `material` the record with that id and does not navigate to '/'.
C24_StudyRouteLoadsRecord ==
  [][(LoadEffect /\ routeParam = StudyRouteParam /\ urlId \in DOMAIN store)
       => (material' = <<store[urlId]>> /\ location' = "study")]_vars

\* C25: while play on the first scene is the only control used on the mounted
\* player, the scene narrated is the scene displayed, the index stays within
\* 0..NumScenes-1, the end of the narration of any scene but the last keeps
\* isPlaying true and schedules the narration of the next scene, and
\* isPlaying turns false only in the step in which the narration of the last
\* scene ends.
C25_NarratesEveryRemainingScene ==
  [][(presses = 1 /\ presses' = 1 /\ playerMounted /\ playerMounted') =>
       /\ synth'.queue # <<>> => Head(synth'.queue).scene = currentSceneIndex'
       /\ currentSceneIndex' \in 0..(NumScenes - 1)
       /\ (synth.queue # <<>> /\ synth'.queue = <<>>
             /\ Head(synth.queue).scene < NumScenes - 1)
            => (isPlaying' /\ timers' = <<Head(synth.queue).scene + 1>>)
       /\ (isPlaying /\ ~isPlaying')
            => (/\ synth.queue # <<>>
                /\ Head(synth.queue).scene = NumScenes - 1
                /\ synth'.queue = <<>>)]_vars
====
